---- MODULE Spec2Model ----
(***************************************************************************)
(* Model of the anivia content synchroniser: Notion pages and Obsidian     *)
(* Markdown files are normalised, their images are rehosted on Cloudflare  *)
(* R2 under content-addressed keys, and the result is upserted into the    *)
(* Supabase table sonder_post.                                             *)
(*                                                                         *)
(* Every string of the program that is built from parts (page ids, URLs,   *)
(* file paths, storage keys) is a tuple of atoms, so that stripping,       *)
(* joining and substitution are computed and not assumed.  The empty       *)
(* string is the empty tuple.  A Markdown body is a sequence of tokens:    *)
(*   <<"txt">>            plain text                                       *)
(*   <<"img", u>>         ![alt](u)                                        *)
(*   <<"wiki", name>>     ![[name]]                                        *)
(***************************************************************************)
EXTENDS Integers, Sequences, FiniteSets, TLC

----------------------------------------------------------------------------
\* Bounds of the model

MaxTime == 2
MaxBatch == 2
MaxSyncs == 4
MaxMediaSyncs == 2
MaxProps == 2
MaxRequests == 3
MaxTokens == 2
MaxStamp == 2

----------------------------------------------------------------------------
\* Sequences and insertion-ordered maps (JavaScript Array / Map)

InSeq(x, s) == \E k \in DOMAIN s : s[k] = x

MapHas(m, key) == \E k \in DOMAIN m : m[k][1] = key

\* Map.set: an existing key keeps its position and takes the new value
MapSet(m, key, val) ==
  IF MapHas(m, key)
  THEN [k \in DOMAIN m |-> IF m[k][1] = key THEN <<key, val>> ELSE m[k]]
  ELSE Append(m, <<key, val>>)

----------------------------------------------------------------------------
\* The environment: documents, images and their bytes

\* Notion page ids as the API and the users write them (with dashes)
PageIds == {<<"p", "-", "1">>, <<"q", "-", "2">>}

\* the Markdown files of a vault
MdFiles == {<<"/vault", "n1.md">>}

Slugs == {"", "s"}

Times == 1..MaxTime

U1 == <<"https:", "src", "a.png">>
U2 == <<"https:", "src", "b.png">>
U3 == <<"https:", "src", "c.png">>
F1 == <<"/vault", "x.png">>
F2 == <<"/vault", "y.png">>
F3 == <<"/vault", "sub", "x.png">>
\* a URL that continues U1
U1q == <<"https:", "src", "a.png", "?v=2">>

\* U1 and U2 (and F1) hold the same bytes under different locators
BytesAt(locator) ==
  CASE locator = U1 -> 1
    [] locator = U2 -> 1
    [] locator = U3 -> 2
    [] locator = F1 -> 1
    [] locator = F2 -> 2
    [] locator = F3 -> 2
    [] locator = U1q -> 2
    [] OTHER -> 0

LocalImageFiles == {F1, F2, F3}

IsRemoteUrl(u) == Len(u) > 0 /\ u[1] \in {"http:", "https:"}

\* The model explores three workspaces:
\*   "pages"  a Notion database of two pages without images and no vault;
\*   "mixed"  one Notion page and one vault file, without images;
\*   "media"  one published page and one published file, which share a slug
\*            and occur with every image layout.
\* In the first two every combination of slug, flag and time occurs.

Workspaces == {"pages", "mixed", "media"}

TextLayout == [body |-> <<<<"txt">>>>, featuredImg |-> <<>>, galleryImgs |-> <<>>]

\* what a Notion page with images can look like when it is fetched
NotionLayouts ==
  { [body |-> <<<<"img", U1>>, <<"txt">>>>,
     featuredImg |-> <<>>, galleryImgs |-> <<>>],
    [body |-> <<<<"img", U1>>, <<"txt">>, <<"img", U2>>>>,
     featuredImg |-> <<>>, galleryImgs |-> <<>>],
    [body |-> <<<<"img", U1>>, <<"img", U1>>>>,
     featuredImg |-> U2, galleryImgs |-> <<>>],
    [body |-> <<<<"txt">>>>, featuredImg |-> <<>>, galleryImgs |-> <<U3, U1>>] }

\* what an Obsidian file with images can look like when it is parsed
ObsidianLayouts ==
  { [body |-> <<<<"wiki", <<"x.png">>>>, <<"txt">>, <<"img", F2>>>>,
     featuredImg |-> <<>>, galleryImgs |-> <<>>],
    [body |-> <<<<"txt">>>>, featuredImg |-> F1, galleryImgs |-> <<>>],
    [body |-> <<<<"txt">>>>, featuredImg |-> U3, galleryImgs |-> <<>>] }

Doc(origin, id, slug, published, t, layout) ==
  [origin |-> origin, id |-> id, slug |-> slug, published |-> published,
   lastEditedTime |-> t, body |-> layout.body,
   featuredImg |-> layout.featuredImg, galleryImgs |-> layout.galleryImgs]

ThePage == <<"p", "-", "1">>

\* the pages of the Notion database
PagesOf(ws) == IF ws = "pages" THEN PageIds ELSE {ThePage}

\* the Markdown files of the vault
FilesOf(ws) == IF ws = "pages" THEN {} ELSE MdFiles

NotionDocs(ws) ==
  IF ws = "media"
  THEN {Doc("notion", p, "s", TRUE, t, l) :
          p \in PagesOf(ws), t \in Times, l \in NotionLayouts}
  ELSE {Doc("notion", p, s, pub, t, TextLayout) :
          p \in PagesOf(ws), s \in Slugs, pub \in BOOLEAN, t \in Times}

ObsidianDocs(ws) ==
  IF ws = "media"
  THEN {Doc("obsidian", f, "s", TRUE, t, l) :
          f \in FilesOf(ws), t \in Times, l \in ObsidianLayouts}
  ELSE {Doc("obsidian", f, s, pub, t, TextLayout) :
          f \in FilesOf(ws), s \in Slugs, pub \in BOOLEAN, t \in Times}

NoDoc ==
  [origin |-> "none", id |-> <<>>, slug |-> "", published |-> FALSE,
   lastEditedTime |-> 0, body |-> <<>>, featuredImg |-> <<>>,
   galleryImgs |-> <<>>]

----------------------------------------------------------------------------
\* CloudflareService: content-addressed keys

\* crypto.createHash('md5').update(buffer).digest('hex')
Md5(bytes) == CASE bytes = 1 -> "h1" [] bytes = 2 -> "h2" [] OTHER -> "h0"

\* variant of getImageDirectory with one directory for every type
getImageDirectoryFlat(imageType) == "images"

getImageDirectory(imageType) ==
  CASE imageType = "markdown" -> "posts"
    [] imageType = "featured" -> "featured"
    [] imageType = "gallery" -> "gallery"
    [] OTHER -> "images"

\* `${directory}/${contentHash}.webp`
ImageKey(contentHash, imageType) ==
  <<getImageDirectory(imageType), contentHash, "webp">>

\* `${this.config.publicUrl}/${key}`
PublicUrl(key) == <<"https:", "cdn">> \o key

----------------------------------------------------------------------------
\* SupabaseService over the table sonder_post (a set of rows; id is the
\* BIGSERIAL primary key, slug is UNIQUE, notion_page_id is not)

\* pageId.replace(/-/g, '')
CleanPageId(pageId) == SelectSeq(pageId, LAMBDA c : c # "-")

\* .single(): PostgREST answers PGRST116 when the result is not exactly one
\* row (none, or several), and the service turns PGRST116 into null; an
\* absent row is the empty set, a found row a singleton
Single(matches) == IF Cardinality(matches) = 1 THEN matches ELSE {}

getPageByOrigin(table, postOrigin, identifier) ==
  Single({r \in table :
            /\ r.post_origin = postOrigin
            /\ IF postOrigin = "notion"
               THEN r.notion_page_id = identifier
               ELSE r.slug = identifier})

getPageBySlug(table, slug) == Single({r \in table : r.slug = slug})

getPageById(table, notionPageId) == getPageByOrigin(table, "notion", notionPageId)

\* the record syncPageData builds from the page data; updated_at is
\* new Date()
PageRecord(pageData, now) ==
  [notion_page_id |-> IF pageData.postOrigin = "notion"
                      THEN CleanPageId(pageData.id) ELSE <<>>,
   last_edited_time |-> pageData.lastEditedTime,
   slug |-> pageData.slug,
   published |-> pageData.published,
   content |-> pageData.content,
   featured_img |-> pageData.featuredImg,
   gallery_imgs |-> pageData.galleryImgs,
   post_origin |-> pageData.postOrigin,
   updated_at |-> now]

\* the row the table makes of an inserted record: the columns of the record
\* and the id of the sequence
RowOf(id, record) == [id |-> id] @@ record

\* variant of Updated that replaces the whole row, created_at included
UpdatedWhole(row, record) ==
  [id |-> row.id, created_at |-> record.updated_at] @@ record

\* update(record): the columns of the record replace those of the row, the
\* other columns (id, created_at) keep their value
Updated(row, record) ==
  [column \in DOMAIN row |->
     IF column \in DOMAIN record THEN record[column] ELSE row[column]]

\* insert: the UNIQUE constraint on slug rejects a second row with the slug
\* (the service prints the error and exits the process)
insertPage(table, id, record) ==
  IF \E r \in table : r.slug = record.slug
  THEN [ok |-> FALSE, table |-> table, kind |-> "insert", row |-> 0]
  ELSE [ok |-> TRUE, table |-> table \cup {RowOf(id, record)},
        kind |-> "insert", row |-> id]

\* update(record).eq('id', id).select().single(): the row with the id is
\* updated; the UNIQUE constraint on slug, or no row with the id, is an error
updatePage(table, id, record) ==
  IF \/ \E r \in table : r.id # id /\ r.slug = record.slug
     \/ ~\E r \in table : r.id = id
  THEN [ok |-> FALSE, table |-> table, kind |-> "update", row |-> id]
  ELSE [ok |-> TRUE,
        table |-> {IF r.id = id THEN Updated(r, record) ELSE r : r \in table},
        kind |-> "update", row |-> id]

\* the row syncPageData writes to: by slug first, then by origin + identifier
ExistingForWrite(table, pageData) ==
  LET bySlug == IF pageData.slug # "" THEN getPageBySlug(table, pageData.slug)
                ELSE {}
  IN IF bySlug # {} THEN bySlug
     ELSE getPageByOrigin(table, pageData.postOrigin,
                          IF pageData.postOrigin = "notion"
                          THEN CleanPageId(pageData.id)
                          ELSE pageData.slug)

\* an insert gets record.created_at = new Date() as well
syncPageData(table, id, pageData, now) ==
  LET existingPage == ExistingForWrite(table, pageData)
      record == PageRecord(pageData, now)
  IN IF existingPage # {}
     THEN updatePage(table, (CHOOSE r \in existingPage : TRUE).id, record)
     ELSE insertPage(table, id, record @@ [created_at |-> now])

----------------------------------------------------------------------------
\* ImageProcessor

RECURSIVE ExtractNotion(_, _, _)
ExtractNotion(markdown, k, imageUrls) ==
  IF k > Len(markdown) THEN imageUrls
  ELSE LET tok == markdown[k]
       IN IF tok[1] = "img" /\ IsRemoteUrl(tok[2]) /\ ~InSeq(tok[2], imageUrls)
          THEN ExtractNotion(markdown, k + 1, Append(imageUrls, tok[2]))
          ELSE ExtractNotion(markdown, k + 1, imageUrls)

\* /!\[.*?]\((https?:\/\/[^)]+)\)/g, each URL once, in order of first match
extractNotionImagesFromMarkdown(markdown) == ExtractNotion(markdown, 1, <<>>)

\* path.isAbsolute
IsAbsolute(p) == Len(p) > 0 /\ p[1] = "/vault"

\* an absolute path as it is, else path.resolve(markdownDir, name), when the
\* file exists; '' otherwise
resolveObsidianImagePath(name, markdownFilePath) ==
  LET resolved == IF IsAbsolute(name) THEN name
                  ELSE <<markdownFilePath[1]>> \o name
  IN IF resolved \in LocalImageFiles THEN resolved ELSE <<>>

RECURSIVE ExtractWiki(_, _, _, _)
ExtractWiki(markdown, file, k, imagePaths) ==
  IF k > Len(markdown) THEN imagePaths
  ELSE LET tok == markdown[k]
           resolved == IF tok[1] = "wiki"
                       THEN resolveObsidianImagePath(tok[2], file) ELSE <<>>
       IN IF resolved # <<>> /\ ~InSeq(resolved, imagePaths)
          THEN ExtractWiki(markdown, file, k + 1, Append(imagePaths, resolved))
          ELSE ExtractWiki(markdown, file, k + 1, imagePaths)

RECURSIVE ExtractStd(_, _, _, _)
ExtractStd(markdown, file, k, imagePaths) ==
  IF k > Len(markdown) THEN imagePaths
  ELSE LET tok == markdown[k]
           resolved == IF tok[1] = "img" /\ ~IsRemoteUrl(tok[2])
                       THEN resolveObsidianImagePath(tok[2], file)
                       ELSE <<>>
       IN IF resolved # <<>> /\ ~InSeq(resolved, imagePaths)
          THEN ExtractStd(markdown, file, k + 1, Append(imagePaths, resolved))
          ELSE ExtractStd(markdown, file, k + 1, imagePaths)

\* the wiki embeds first, then the standard-syntax local paths
extractObsidianImagesFromMarkdown(markdown, file) ==
  ExtractStd(markdown, file, 1, ExtractWiki(markdown, file, 1, <<>>))

\* an AniviaImage before processing; st is the position of its task in
\* processImages and buffer the bytes the task holds
NewImage(url, type, source, filename) ==
  [url |-> url, originalUrl |-> url, filename |-> filename, hash |-> "",
   type |-> type, source |-> source, cloudflareUrl |-> <<>>, buffer |-> 0,
   st |-> "fetch"]

convertUrlsToAniviaImages(imageUrls, type) ==
  [k \in DOMAIN imageUrls |->
     NewImage(imageUrls[k], type, "notion", <<"img", k - 1>>)]

convertLocalPathsToAniviaImages(imagePaths, type) ==
  [k \in DOMAIN imagePaths |->
     NewImage(imagePaths[k], type, "local", <<imagePaths[k][2]>>)]

\* variant of SelectType that takes the images whatever their type
SelectTypeAny(imgs, type) == imgs

SelectType(imgs, type) == SelectSeq(imgs, LAMBDA img : img.type = type)

RECURSIVE MappingsFrom(_, _, _)
MappingsFrom(processedImages, k, imageMap) ==
  IF k > Len(processedImages) THEN imageMap
  ELSE LET img == processedImages[k]
       IN IF img.cloudflareUrl # <<>>
          THEN MappingsFrom(processedImages, k + 1,
                 LET m1 == MapSet(imageMap, img.url, img.cloudflareUrl)
                 IN IF img.originalUrl # <<>> /\ img.originalUrl # img.url
                    THEN MapSet(m1, img.originalUrl, img.cloudflareUrl)
                    ELSE m1)
          ELSE MappingsFrom(processedImages, k + 1, imageMap)

createImageMappings(processedImages) == MappingsFrom(processedImages, 1, <<>>)

\* the pattern occurs in the text at position i
OccursAt(text, i, pattern) ==
  /\ i + Len(pattern) - 1 <= Len(text)
  /\ \A j \in DOMAIN pattern : text[i + j - 1] = pattern[j]

\* text.replace(new RegExp(escaped, 'g'), replacement): every occurrence of
\* the pattern, from left to right, wherever it is in the text
RECURSIVE ReplaceFrom(_, _, _, _)
ReplaceFrom(text, i, pattern, replacement) ==
  IF i > Len(text) THEN <<>>
  ELSE IF OccursAt(text, i, pattern)
       THEN replacement
            \o ReplaceFrom(text, i + Len(pattern), pattern, replacement)
       ELSE <<text[i]>> \o ReplaceFrom(text, i + 1, pattern, replacement)

\* one pass of finalMarkdown.replace(new RegExp(escapedUrl, 'g'), cloudflareUrl)
ReplaceUrl(markdown, originalUrl, cloudflareUrl) ==
  [k \in DOMAIN markdown |->
     IF Len(markdown[k]) >= 2
     THEN <<markdown[k][1],
            ReplaceFrom(markdown[k][2], 1, originalUrl, cloudflareUrl)>>
     ELSE markdown[k]]

RECURSIVE ReplaceAll(_, _, _)
ReplaceAll(markdown, imageMap, k) ==
  IF k > Len(imageMap) THEN markdown
  ELSE ReplaceAll(ReplaceUrl(markdown, imageMap[k][1], imageMap[k][2]),
                  imageMap, k + 1)

\* variant of replaceImageUrlsInMarkdown that leaves the Markdown as it came
replaceImageUrlsInMarkdownKept(markdown, imageMap) == markdown

replaceImageUrlsInMarkdown(markdown, imageMap) == ReplaceAll(markdown, imageMap, 1)

\* one map entry of replaceObsidianImageSyntax: ![[basename]] becomes
\* ![](url), and ![alt](localPath) becomes ![alt](url)
ReplaceObsidianEntry(markdown, localPath, cloudflareUrl) ==
  LET filename == <<localPath[Len(localPath)]>>
  IN [k \in DOMAIN markdown |->
        IF markdown[k][1] = "wiki" /\ markdown[k][2] = filename
        THEN <<"img", cloudflareUrl>>
        ELSE IF markdown[k][1] = "img" /\ markdown[k][2] = localPath
             THEN <<"img", cloudflareUrl>>
             ELSE markdown[k]]

RECURSIVE ReplaceObsidianAll(_, _, _)
ReplaceObsidianAll(markdown, imageMap, k) ==
  IF k > Len(imageMap) THEN markdown
  ELSE ReplaceObsidianAll(
         ReplaceObsidianEntry(markdown, imageMap[k][1], imageMap[k][2]),
         imageMap, k + 1)

replaceObsidianImageSyntax(markdown, imageMap) ==
  ReplaceObsidianAll(markdown, imageMap, 1)

----------------------------------------------------------------------------
\* The process: one command of the CLI (index.ts) at a time

VARIABLES
  db,              \* rows of sonder_post
  nextId,          \* next value of the BIGSERIAL id
  store,           \* keys of the objects in the R2 bucket
  uploadedImages,  \* CloudflareService.uploadedImages of the running command
  pc,              \* position of the process
  cmd,             \* the running command: kind, ignoreUpdateTime, pages, i
  tally,           \* successCount, skippedCount, failCount, errors, printed,
                   \* and has_updates as reported ("none" before the report)
  exitCode,        \* -1 while running, else the exit status of the process
  cause,           \* the call that ended the process, when it exited
  doc,             \* pageData / parsed file of the document being synced
  existing,        \* existingPage found for the staleness check
  decision,        \* branch taken by the staleness check
  images,          \* allImages, each with the position of its task
  eff,             \* what the current sync has written so far
  result,          \* how the current sync ended
  repeat,          \* the current sync repeats the previous one, unchanged
  last,            \* the previous document sync
  syncs,           \* number of document syncs started
  workspace,       \* what the Notion database and the vault hold
  resolved,        \* history: every image resolved so far, with its locator,
                   \* bytes, role, URL and whether it was found or put
  applied,         \* a function of the program applied on its own: fn, arg, out
  peers            \* the requests the HTTP server is handling concurrently

vars == <<db, nextId, store, uploadedImages, pc, cmd, tally, exitCode, cause,
          doc, existing, decision, images, eff, result, repeat, last, syncs,
          workspace, resolved, applied, peers>>

\* the variables of the CLI process
cli == <<pc, cmd, tally, exitCode, cause, doc, existing, decision, images,
         eff, result, repeat, last, uploadedImages, resolved>>

\* the variables of one document sync
locals == <<doc, existing, decision, images, eff, result, repeat>>

NoEff == [puts |-> 0, inserts |-> 0, updates |-> 0, row |-> 0]

NoTally ==
  [successCount |-> 0, skippedCount |-> 0, failCount |-> 0, errors |-> <<>>,
   printed |-> FALSE, hasUpdates |-> "none"]

NoLast == [doc |-> NoDoc, ok |-> FALSE]

NoCall == [fn |-> "none", arg |-> <<>>, out |-> <<>>, done |-> FALSE]

NoPeers == <<>>

\* no command has run yet
Idle ==
  /\ db = {}
  /\ nextId = 1
  /\ store = {}
  /\ uploadedImages = {}
  /\ pc = "idle"
  /\ cmd = [kind |-> "none", force |-> FALSE, n |-> 0, i |-> 0]
  /\ tally = NoTally
  /\ exitCode = -1
  /\ cause = ""
  /\ doc = NoDoc
  /\ existing = {}
  /\ decision = "NONE"
  /\ images = <<>>
  /\ eff = NoEff
  /\ result = "none"
  /\ repeat = FALSE
  /\ last = NoLast
  /\ syncs = 0
  /\ resolved = {}

Init ==
  /\ Idle
  /\ workspace \in Workspaces
  /\ applied = NoCall
  /\ peers = NoPeers

ClearLocals ==
  /\ doc' = NoDoc
  /\ existing' = {}
  /\ decision' = "NONE"
  /\ images' = <<>>
  /\ eff' = NoEff
  /\ result' = "none"
  /\ repeat' = FALSE

\* variant of Exit that notes the failed call and lets the process run on
ExitAbsorbed(call) ==
  /\ cause' = call
  /\ UNCHANGED <<pc, exitCode, last>>

\* process.exit(1), or an exception nobody catches
Exit(call) ==
  /\ pc' = "exited"
  /\ exitCode' = 1
  /\ cause' = call
  /\ last' = NoLast

\* syncPage / syncObsidianFile resolves with { success: true, skipped }
Return(how) ==
  /\ pc' = "returned"
  /\ result' = how

\* the number of document syncs the model follows in a workspace
SyncBudget(ws) == IF ws = "media" THEN MaxMediaSyncs ELSE MaxSyncs

\* the lengths of the list a batch command iterates over: nothing when the
\* workspace holds no such document, and no more than the model follows
BatchSizes(docs, started) ==
  IF docs = {} THEN {0}
  ELSE {n \in 0..MaxBatch : started + n <= SyncBudget(workspace)}

\* sync-notion-database
StartNotionDatabase ==
  /\ pc \in {"idle", "finished", "exited"}
  /\ \E n \in BatchSizes(NotionDocs(workspace), syncs), force \in BOOLEAN :
       cmd' = [kind |-> "notion", force |-> force, n |-> n, i |-> 0]
  /\ tally' = NoTally
  /\ uploadedImages' = {}
  /\ exitCode' = -1
  /\ cause' = ""
  /\ pc' = "loop"
  /\ ClearLocals
  /\ UNCHANGED <<db, nextId, store, last, syncs, workspace, resolved, applied, peers>>

\* sync-obsidian: no Markdown file under the path is an error
StartObsidian ==
  /\ pc \in {"idle", "finished", "exited"}
  /\ \E n \in BatchSizes(ObsidianDocs(workspace), syncs) :
       /\ cmd' = [kind |-> "obsidian", force |-> FALSE, n |-> n, i |-> 0]
       /\ pc' = IF n = 0 THEN "exited" ELSE "loop"
       /\ exitCode' = IF n = 0 THEN 1 ELSE -1
       /\ cause' = IF n = 0 THEN "nofiles" ELSE ""
       /\ last' = IF n = 0 THEN NoLast ELSE last
  /\ tally' = NoTally
  /\ uploadedImages' = {}
  /\ ClearLocals
  /\ UNCHANGED <<db, nextId, store, syncs, workspace, resolved, applied, peers>>

\* variant of InLoop that starts the next document while the image tasks of
\* the current one run
InLoopOverlapping(kind) ==
  /\ pc \in {"loop", "images"}
  /\ cmd.kind = kind
  /\ cmd.i < cmd.n
  /\ syncs < SyncBudget(workspace)

InLoop(kind) ==
  /\ pc = "loop"
  /\ cmd.kind = kind
  /\ cmd.i < cmd.n
  /\ syncs < SyncBudget(workspace)

\* the document is the one the previous sync saw, and neither sync is forced
Repeats(d) == last.ok /\ last.doc = d /\ ~cmd.force

\* variant of Unpublished that lets every page through
UnpublishedNever(pageData) == FALSE

\* if (!pageData.published)
Unpublished(pageData) == ~pageData.published

\* syncPage: getPageData answers, then the published check
GetPageData ==
  /\ InLoop("notion")
  /\ \E d \in NotionDocs(workspace) :
       /\ doc' = d
       /\ repeat' = Repeats(d)
       /\ IF Unpublished(d)
          THEN /\ Return("skipped")
               /\ decision' = "SKIP_UNPUBLISHED"
          ELSE /\ pc' = "lookup"
               /\ decision' = "NONE"
               /\ UNCHANGED result
  /\ existing' = {} /\ images' = <<>> /\ eff' = NoEff
  /\ syncs' = syncs + 1
  /\ UNCHANGED <<workspace, resolved, applied, peers>>
  /\ UNCHANGED <<db, nextId, store, uploadedImages, cmd, tally, exitCode,
                 cause, last>>

\* callNotionApi: any error of the Notion API ends the process
NotionApiFails ==
  /\ InLoop("notion")
  /\ Exit("notion")
  /\ syncs' = syncs + 1
  /\ UNCHANGED <<workspace, resolved, applied, peers>>
  /\ UNCHANGED <<db, nextId, store, uploadedImages, cmd, tally, locals>>

\* variant of NotNewer that lets equal timestamps through
NotNewerStrict(incoming, row) == incoming < row.last_edited_time

\* notionLastEdited.getTime() <= supabaseLastEdited.getTime()
NotNewer(incoming, row) == incoming <= row.last_edited_time

TheRow(found) == CHOOSE r \in found : TRUE

\* the branch of the staleness check
Decide(existingPage, incoming, ignoreUpdateTime) ==
  IF existingPage # {} /\ ~ignoreUpdateTime
     /\ NotNewer(incoming, TheRow(existingPage))
  THEN "SKIP_UNCHANGED"
  ELSE IF existingPage # {} THEN "UPDATE" ELSE "CREATE"

\* syncPage: getPageById answers, then the staleness check
LookupPage ==
  /\ pc = "lookup"
  /\ cmd.kind = "notion"
  /\ LET existingPage == getPageById(db, CleanPageId(doc.id))
         branch == Decide(existingPage, doc.lastEditedTime, cmd.force)
     IN /\ existing' = existingPage
        /\ decision' = branch
        /\ IF branch = "SKIP_UNCHANGED"
           THEN Return("skipped")
           ELSE pc' = "convert" /\ UNCHANGED result
  /\ UNCHANGED <<db, nextId, store, uploadedImages, cmd, tally, exitCode,
                 cause, doc, images, eff, repeat, last, syncs, workspace, resolved, applied, peers>>

\* allImages of syncPage: Markdown images, then the cover, then the gallery
NotionImages(pageData, rawMarkdown) ==
  convertUrlsToAniviaImages(extractNotionImagesFromMarkdown(rawMarkdown),
                            "markdown")
  \o (IF pageData.featuredImg # <<>>
      THEN <<NewImage(pageData.featuredImg, "featured", "notion",
                      <<"featured">>)>>
      ELSE <<>>)
  \o [k \in DOMAIN pageData.galleryImgs |->
        NewImage(pageData.galleryImgs[k], "gallery", "notion",
                 <<"gallery", k - 1>>)]

\* syncPage steps 1-3: the Markdown arrives, the images are extracted and
\* processImages starts one task per image
ConvertPage ==
  /\ pc = "convert"
  /\ images' = NotionImages(doc, doc.body)
  /\ pc' = "images"
  /\ UNCHANGED <<db, nextId, store, uploadedImages, cmd, tally, exitCode,
                 cause, doc, existing, decision, eff, result, repeat, last,
                 syncs, workspace, resolved, applied, peers>>

\* convertPageToMarkdown: notion-to-md fails, the converter exits
ConvertExits ==
  /\ pc = "convert"
  /\ Exit("convert")
  /\ UNCHANGED <<db, nextId, store, uploadedImages, cmd, tally, locals, syncs, workspace, resolved, applied, peers>>

\* convertPageToMarkdown throws outside its try blocks (markdownString.parent
\* is undefined for a page without blocks) and syncPage rejects
ConvertThrows ==
  /\ pc = "convert"
  /\ Return("threw")
  /\ UNCHANGED <<db, nextId, store, uploadedImages, cmd, tally, exitCode,
                 cause, doc, existing, decision, images, eff, repeat, last,
                 syncs, workspace, resolved, applied, peers>>

----------------------------------------------------------------------------
\* CloudflareService.processImages: one concurrent task per image

Task(k) ==
  /\ pc = "images"
  /\ k \in DOMAIN images

Finished(img) == img.st \in {"done", "failed"}

\* downloadAndHashImage / readLocalFileAndHash: the bytes arrive and are hashed
ContentHash(locator) == Md5(BytesAt(locator))

Readable(img) ==
  IF img.source = "notion" THEN TRUE ELSE img.url \in LocalImageFiles

FetchImage(k) ==
  /\ Task(k)
  /\ images[k].st = "fetch"
  /\ Readable(images[k])
  /\ images' = [images EXCEPT ![k].hash = ContentHash(images[k].url),
                              ![k].buffer = BytesAt(images[k].url),
                              ![k].st = "probe"]
  /\ UNCHANGED <<db, nextId, store, uploadedImages, pc, cmd, tally, exitCode,
                 cause, doc, existing, decision, eff, result, repeat, last,
                 syncs, workspace, resolved, applied, peers>>

\* the task of image k ends the process
TaskExits(k, call) ==
  /\ Exit(call)
  /\ images' = [images EXCEPT ![k].st = "exit"]
  /\ UNCHANGED <<db, nextId, store, uploadedImages, cmd, tally, doc, existing,
                 decision, eff, result, repeat, syncs, workspace, resolved, applied, peers>>

\* fetch rejects, the response is not ok, or readFileSync throws: the
\* service prints the error and exits the process
FetchExits(k) ==
  /\ Task(k)
  /\ images[k].st = "fetch"
  /\ TaskExits(k, "fetch")

\* response.arrayBuffer() rejects: the only failure that reaches the catch
\* of processImages, which returns the image as it came
FetchBodyThrows(k) ==
  /\ Task(k)
  /\ images[k].st = "fetch"
  /\ images[k].source = "notion"
  /\ images' = [images EXCEPT ![k].st = "failed"]
  /\ UNCHANGED <<db, nextId, store, uploadedImages, pc, cmd, tally, exitCode,
                 cause, doc, existing, decision, eff, result, repeat, last,
                 syncs, workspace, resolved, applied, peers>>

\* variant of checkImageExists that never finds the object
checkImageExistsNever(bucket, contentHash, imageType) == <<>>

\* variant of checkImageExists that probes one directory for every type
checkImageExistsFlat(bucket, contentHash, imageType) ==
  IF <<"images", contentHash, "webp">> \in bucket
  THEN PublicUrl(<<"images", contentHash, "webp">>)
  ELSE <<>>

\* checkImageExists: HeadObject at `${directory}/${contentHash}.webp`
checkImageExists(bucket, contentHash, imageType) ==
  IF ImageKey(contentHash, imageType) \in bucket
  THEN PublicUrl(ImageKey(contentHash, imageType))
  ELSE <<>>

\* what the history keeps of an image that got its URL
Resolution(img, url, how) ==
  [locator |-> img.url, bytes |-> img.buffer, type |-> img.type, url |-> url,
   how |-> how]

ProbeImage(k) ==
  /\ Task(k)
  /\ images[k].st = "probe"
  /\ LET existingUrl == checkImageExists(store, images[k].hash, images[k].type)
     IN IF existingUrl # <<>>
        THEN /\ images' = [images EXCEPT ![k].cloudflareUrl = existingUrl,
                                         ![k].st = "done"]
             /\ uploadedImages' = uploadedImages \cup {images[k].hash}
             /\ resolved' = resolved \cup {Resolution(images[k], existingUrl, "found")}
        ELSE /\ images' = [images EXCEPT ![k].st = "put"]
             /\ UNCHANGED <<uploadedImages, resolved>>
  /\ UNCHANGED <<db, nextId, store, pc, cmd, tally, exitCode, cause, doc,
                 existing, decision, eff, result, repeat, last, syncs, workspace, applied, peers>>

\* HeadObject fails with 401 or any error other than 404
ProbeExits(k) ==
  /\ Task(k)
  /\ images[k].st = "probe"
  /\ TaskExits(k, "probe")

\* variant of UploadKey that names the object after the file of the locator
UploadKeyByName(img) ==
  <<getImageDirectory(img.type), img.url[Len(img.url)], "webp">>

\* uploadImageBuffer: the hash is recomputed from the buffer, the image is
\* transcoded to WebP and put at `${directory}/${image.hash}.webp`
UploadKey(img) ==
  LET actualContentHash == Md5(img.buffer)
      hash == IF actualContentHash # img.hash THEN actualContentHash
              ELSE img.hash
  IN ImageKey(hash, img.type)

UploadImage(k) ==
  /\ Task(k)
  /\ images[k].st = "put"
  /\ LET key == UploadKey(images[k])
     IN /\ store' = store \cup {key}
        /\ uploadedImages' = uploadedImages \cup {key[2]}
        /\ images' = [images EXCEPT ![k].cloudflareUrl = PublicUrl(key),
                                    ![k].hash = key[2],
                                    ![k].st = "done"]
        /\ resolved' = resolved \cup {Resolution(images[k], PublicUrl(key), "put")}
  /\ eff' = [eff EXCEPT !.puts = @ + 1]
  /\ UNCHANGED <<db, nextId, pc, cmd, tally, exitCode, cause, doc, existing,
                 decision, result, repeat, last, syncs, workspace, applied, peers>>

\* sharp fails or PutObject fails
UploadExits(k) ==
  /\ Task(k)
  /\ images[k].st = "put"
  /\ TaskExits(k, "upload")

\* variant of Joined that waits for the first task only
JoinedFirst ==
  /\ pc = "images"
  /\ \A k \in DOMAIN images : k = 1 => Finished(images[k])

\* await Promise.all(processPromises): every task has returned its image
Joined ==
  /\ pc = "images"
  /\ \A k \in DOMAIN images : Finished(images[k])

----------------------------------------------------------------------------
\* SyncService.syncPage, steps 4 and 5

\* variant of FinalNotionPageData that keeps the source URL of a cover or a
\* gallery image that was not resolved
FinalNotionPageDataWithSource(pageData, rawMarkdown, processedImages) ==
  LET featured == SelectType(processedImages, "featured")
      gallery == SelectType(processedImages, "gallery")
      Kept(img) == IF img.cloudflareUrl # <<>> THEN img.cloudflareUrl
                   ELSE img.originalUrl
  IN [id |-> pageData.id,
      slug |-> pageData.slug,
      published |-> pageData.published,
      lastEditedTime |-> pageData.lastEditedTime,
      content |-> replaceImageUrlsInMarkdown(rawMarkdown,
                    createImageMappings(SelectType(processedImages, "markdown"))),
      featuredImg |-> IF featured # <<>> THEN Kept(featured[1]) ELSE <<>>,
      galleryImgs |-> [k \in DOMAIN gallery |-> Kept(gallery[k])],
      postOrigin |-> "notion"]

FinalNotionPageData(pageData, rawMarkdown, processedImages) ==
  LET processedMarkdownImages == SelectType(processedImages, "markdown")
      featured == SelectType(processedImages, "featured")
      processedGalleryImages == SelectType(processedImages, "gallery")
      imageMap == createImageMappings(processedMarkdownImages)
      galleryUrls == [k \in DOMAIN processedGalleryImages |->
                        processedGalleryImages[k].cloudflareUrl]
  IN [id |-> pageData.id,
      slug |-> pageData.slug,
      published |-> pageData.published,
      lastEditedTime |-> pageData.lastEditedTime,
      content |-> replaceImageUrlsInMarkdown(rawMarkdown, imageMap),
      featuredImg |-> IF featured # <<>> THEN featured[1].cloudflareUrl
                      ELSE <<>>,
      galleryImgs |-> SelectSeq(galleryUrls, LAMBDA url : url # <<>>),
      postOrigin |-> "notion"]

\* what a write leaves in eff
Written(e, w) ==
  [e EXCEPT !.inserts = IF w.kind = "insert" THEN @ + 1 ELSE @,
            !.updates = IF w.kind = "update" THEN @ + 1 ELSE @,
            !.row = w.row]

\* new Date() in the processes the model follows: nothing they do reads
\* created_at or updated_at, and their writes are all stamped alike;
\* syncPageData is applied on its own with every stamp
Clock == 0

\* syncPageData writes the row and the sync returns; a rejected write exits
\* the process
Persist(pageData) ==
  LET w == syncPageData(db, nextId, pageData, Clock)
  IN IF w.ok
     THEN /\ db' = w.table
          /\ nextId' = IF w.kind = "insert" THEN nextId + 1 ELSE nextId
          /\ eff' = Written(eff, w)
          /\ Return("synced")
          /\ UNCHANGED <<exitCode, cause, last>>
     ELSE /\ Exit("write")
          /\ UNCHANGED <<db, nextId, eff, result>>

\* the images are joined, the body is rewritten and the page is saved
SavePage ==
  /\ Joined
  /\ cmd.kind = "notion"
  /\ Persist(FinalNotionPageData(doc, doc.body, images))
  /\ UNCHANGED <<store, uploadedImages, cmd, tally, doc, existing, decision,
                 images, repeat, syncs, workspace, resolved, applied, peers>>

\* sync-notion-database counts a result: skipped, synced, or the rejection
\* it caught
NotionTally(t, how, pageId) ==
  CASE how = "skipped" -> [t EXCEPT !.skippedCount = @ + 1]
    [] how = "synced" -> [t EXCEPT !.successCount = @ + 1]
    [] OTHER -> [t EXCEPT !.failCount = @ + 1, !.errors = Append(@, pageId)]

\* the body of the loop of sync-notion-database after syncPage settled
CountPage ==
  /\ pc = "returned"
  /\ cmd.kind = "notion"
  /\ tally' = NotionTally(tally, result, doc.id)
  /\ cmd' = [cmd EXCEPT !.i = @ + 1]
  /\ last' = IF result \in {"skipped", "synced"} /\ ~cmd.force
             THEN [doc |-> doc, ok |-> TRUE] ELSE NoLast
  /\ pc' = "loop"
  /\ ClearLocals
  /\ UNCHANGED <<db, nextId, store, uploadedImages, exitCode, cause, syncs, workspace, resolved, applied, peers>>

----------------------------------------------------------------------------
\* ObsidianSyncService.syncObsidianFile

\* parseMarkdownFile answers, then the slug check
ParseFile ==
  /\ InLoop("obsidian")
  /\ \E d \in ObsidianDocs(workspace) :
       /\ doc' = d
       /\ repeat' = Repeats(d)
       /\ IF d.slug = ""
          THEN /\ Return("skipped")
               /\ decision' = "SKIP_NO_SLUG"
          ELSE /\ pc' = "lookup"
               /\ decision' = "NONE"
               /\ UNCHANGED result
  /\ existing' = {} /\ images' = <<>> /\ eff' = NoEff
  /\ syncs' = syncs + 1
  /\ UNCHANGED <<workspace, resolved, applied, peers>>
  /\ UNCHANGED <<db, nextId, store, uploadedImages, cmd, tally, exitCode,
                 cause, last>>

\* parseFrontMatter throws; sync-obsidian has no catch around the sync
ParseThrows ==
  /\ InLoop("obsidian")
  /\ Exit("parse")
  /\ syncs' = syncs + 1
  /\ UNCHANGED <<workspace, resolved, applied, peers>>
  /\ UNCHANGED <<db, nextId, store, uploadedImages, cmd, tally, locals>>

\* allImages of syncObsidianFile: the cover first, then the Markdown images
ObsidianImages(frontMatter, content, filePath) ==
  (IF frontMatter.featuredImg # <<>>
   THEN <<NewImage(frontMatter.featuredImg, "featured", "local",
                   <<"featured">>)>>
   ELSE <<>>)
  \o convertLocalPathsToAniviaImages(
       extractObsidianImagesFromMarkdown(content, filePath), "markdown")

\* getPageByOrigin('obsidian', slug) answers, then the staleness check on the
\* Git time of the file; processImages starts when the file is new or newer
LookupObsidian ==
  /\ pc = "lookup"
  /\ cmd.kind = "obsidian"
  /\ LET existingPage == getPageByOrigin(db, "obsidian", doc.slug)
         branch == Decide(existingPage, doc.lastEditedTime, FALSE)
     IN /\ existing' = existingPage
        /\ decision' = branch
        /\ IF branch = "SKIP_UNCHANGED"
           THEN Return("skipped") /\ UNCHANGED images
           ELSE /\ images' = ObsidianImages(doc, doc.body, doc.id)
                /\ pc' = "images"
                /\ UNCHANGED result
  /\ UNCHANGED <<db, nextId, store, uploadedImages, cmd, tally, exitCode,
                 cause, doc, eff, repeat, last, syncs, workspace, resolved, applied, peers>>

RECURSIVE ObsidianMapFrom(_, _, _)
ObsidianMapFrom(processedMarkdownImages, k, imageMap) ==
  IF k > Len(processedMarkdownImages) THEN imageMap
  ELSE LET img == processedMarkdownImages[k]
       IN ObsidianMapFrom(processedMarkdownImages, k + 1,
            IF img.cloudflareUrl # <<>>
            THEN MapSet(imageMap, img.originalUrl, img.cloudflareUrl)
            ELSE imageMap)

convertToNotionPageData(frontMatter, markdown, featured) ==
  [id |-> <<>>,
   slug |-> frontMatter.slug,
   published |-> frontMatter.published,
   lastEditedTime |-> frontMatter.lastEditedTime,
   content |-> markdown,
   featuredImg |-> IF featured # <<>> /\ featured[1].cloudflareUrl # <<>>
                   THEN featured[1].cloudflareUrl
                   ELSE IF featured # <<>> THEN featured[1].originalUrl
                        ELSE <<>>,
   galleryImgs |-> <<>>,
   postOrigin |-> "obsidian"]

FinalObsidianPageData(frontMatter, content, processedImages) ==
  LET processedMarkdownImages == SelectType(processedImages, "markdown")
      imageMap == ObsidianMapFrom(processedMarkdownImages, 1, <<>>)
  IN convertToNotionPageData(frontMatter,
       replaceObsidianImageSyntax(content, imageMap),
       SelectType(processedImages, "featured"))

SaveObsidian ==
  /\ Joined
  /\ cmd.kind = "obsidian"
  /\ Persist(FinalObsidianPageData(doc, doc.body, images))
  /\ UNCHANGED <<store, uploadedImages, cmd, tally, doc, existing, decision,
                 images, repeat, syncs, workspace, resolved, applied, peers>>

\* variant of ObsidianTally that counts a skipped file as a failure
ObsidianTallyFailing(t, how) ==
  IF how = "skipped"
  THEN [t EXCEPT !.failCount = @ + 1]
  ELSE [t EXCEPT !.successCount = @ + 1]

\* sync-obsidian counts a result that has success: skipped or synced
ObsidianTally(t, how) ==
  IF how = "skipped"
  THEN [t EXCEPT !.skippedCount = @ + 1]
  ELSE [t EXCEPT !.successCount = @ + 1]

\* the body of the loop of sync-obsidian after syncObsidianFile resolved
CountFile ==
  /\ pc = "returned"
  /\ cmd.kind = "obsidian"
  /\ tally' = ObsidianTally(tally, result)
  /\ cmd' = [cmd EXCEPT !.i = @ + 1]
  /\ last' = [doc |-> doc, ok |-> TRUE]
  /\ pc' = "loop"
  /\ ClearLocals
  /\ UNCHANGED <<db, nextId, store, uploadedImages, exitCode, cause, syncs, workspace, resolved, applied, peers>>

----------------------------------------------------------------------------
\* The end of a batch

\* variant of HasUpdates that takes a skipped page for an update
HasUpdatesOrSkips(t) ==
  IF t.successCount + t.skippedCount > 0 THEN "true" ELSE "false"

\* if (successCount > 0) has_updates=true, else has_updates=false
HasUpdates(t) == IF t.successCount > 0 THEN "true" ELSE "false"

\* sync-notion-database: the statistics and the failure list are printed,
\* has_updates is reported, then a failure makes the exit status 1
FinishNotionDatabase ==
  /\ pc = "loop"
  /\ cmd.kind = "notion"
  /\ cmd.i = cmd.n
  /\ tally' = [tally EXCEPT !.printed = cmd.n > 0, !.hasUpdates = HasUpdates(tally)]
  /\ exitCode' = IF tally.failCount > 0 THEN 1 ELSE 0
  /\ pc' = "finished"
  /\ UNCHANGED <<db, nextId, store, uploadedImages, cmd, cause, locals, last,
                 syncs, workspace, resolved, applied, peers>>

\* sync-obsidian: the statistics are printed
FinishObsidian ==
  /\ pc = "loop"
  /\ cmd.kind = "obsidian"
  /\ cmd.i = cmd.n
  /\ tally' = [tally EXCEPT !.printed = TRUE]
  /\ exitCode' = 0
  /\ pc' = "finished"
  /\ UNCHANGED <<db, nextId, store, uploadedImages, cmd, cause, locals, last,
                 syncs, workspace, resolved, applied, peers>>

Next ==
  \/ StartNotionDatabase
  \/ StartObsidian
  \/ GetPageData
  \/ NotionApiFails
  \/ LookupPage
  \/ ConvertPage
  \/ ConvertExits
  \/ ConvertThrows
  \/ \E k \in 1..2 : FetchImage(k)
  \/ \E k \in 1..2 : FetchExits(k)
  \/ \E k \in 1..2 : FetchBodyThrows(k)
  \/ \E k \in 1..2 : ProbeImage(k)
  \/ \E k \in 1..2 : ProbeExits(k)
  \/ \E k \in 1..2 : UploadImage(k)
  \/ \E k \in 1..2 : UploadExits(k)
  \/ SavePage
  \/ CountPage
  \/ ParseFile
  \/ ParseThrows
  \/ LookupObsidian
  \/ SaveObsidian
  \/ CountFile
  \/ FinishNotionDatabase
  \/ FinishObsidian

Spec == Init /\ [][Next]_vars

----------------------------------------------------------------------------
\* NotionService: the extractors of getPageData

\* String.prototype.toLowerCase on the property names of the model
ToLower(key) ==
  CASE key = "Categories" -> "categories"
    [] key = "Category" -> "category"
    [] OTHER -> key

\* the names a page can give its properties; "fenlei" stands for the
\* Chinese name of the categories property
PropertyNames == {"Categories", "Category", "fenlei", "Title"}

\* the values of a property: a multi_select with its option names, a select
\* with its option, or a select without one (name "")
PropertyValues ==
  {[type |-> "multi_select", names |-> <<"A">>, name |-> ""],
   [type |-> "multi_select", names |-> <<"B">>, name |-> ""],
   [type |-> "select", names |-> <<>>, name |-> "C"],
   [type |-> "select", names |-> <<>>, name |-> ""]}

\* Object.entries(page.properties): the properties in the order of the bag,
\* no name twice
PropertyBags ==
  {bag \in UNION {[1..n -> [key : PropertyNames, value : PropertyValues]] :
                    n \in 0..MaxProps} :
     \A i, j \in DOMAIN bag : bag[i].key = bag[j].key => i = j}

\* extractCategories: the first property of the bag that has one of the
\* names and a value gives the categories
RECURSIVE ExtractCategoriesFrom(_, _)
ExtractCategoriesFrom(entries, k) ==
  IF k > Len(entries) THEN <<>>
  ELSE LET key == entries[k].key
           prop == entries[k].value
       IN IF ToLower(key) = "categories" \/ ToLower(key) = "category"
             \/ key = "fenlei"
          THEN IF prop.type = "multi_select" THEN prop.names
               ELSE IF prop.type = "select" /\ prop.name # ""
                    THEN <<prop.name>>
                    ELSE ExtractCategoriesFrom(entries, k + 1)
          ELSE ExtractCategoriesFrom(entries, k + 1)

extractCategories(properties) == ExtractCategoriesFrom(properties, 1)

\* FIELD_MAPPINGS: notionPropertyNames of the categories field
CategoryPropertyNames ==
  <<"categories", "Categories", "fenlei", "category", "Category">>

\* findMappingByNotionProperty compares the names without case
MatchesName(candidate, propertyName) ==
  ToLower(candidate) = ToLower(propertyName)

----------------------------------------------------------------------------
\* Errors of the document source and of the object store, and what the
\* callers do with them

\* an error as isRetryableError sees it: its code ('' when none) and its
\* HTTP status (0 when none)
SourceErrors ==
  {[code |-> "ECONNRESET", status |-> 0],
   [code |-> "rate_limited", status |-> 429],
   [code |-> "", status |-> 503],
   [code |-> "validation_error", status |-> 400]}

\* the call answered
Answered == [code |-> "ok", status |-> 200]

\* isRetryableError
isRetryableError(error) ==
  IF error.code \in {"ECONNRESET", "ENOTFOUND", "ETIMEDOUT", "ECONNREFUSED"}
  THEN TRUE
  ELSE IF error.status # 0
       THEN error.status \in {429, 502, 503, 504}
       ELSE error.code = "rate_limited"

\* withRetry: maxRetries = 3
DefaultMaxRetries == 3

\* what the remote side answers to the consecutive attempts of one call
Scripts == [1..DefaultMaxRetries -> SourceErrors \cup {Answered}]

\* callNotionApi: the call is made once; any error is printed and ends the
\* process
callNotionApi(script) ==
  IF script[1] = Answered
  THEN [outcome |-> "ok", attempts |-> 1]
  ELSE [outcome |-> "exit", attempts |-> 1]

\* downloadAndHashImage: fetch is called once; a rejection or a response that
\* is not ok is printed and ends the process
downloadAndHashImage(script) ==
  IF script[1] = Answered
  THEN [outcome |-> "ok", attempts |-> 1]
  ELSE [outcome |-> "exit", attempts |-> 1]

----------------------------------------------------------------------------
\* The functions of the program applied on their own to bounded inputs

Pending(fn, args) ==
  {[fn |-> fn, arg |-> a, out |-> <<>>, done |-> FALSE] : a \in args}

Applies(fn) == applied.fn = fn /\ ~applied.done

Answer(out) ==
  /\ applied' = [applied EXCEPT !.out = out, !.done = TRUE]
  /\ UNCHANGED <<db, nextId, store, syncs, workspace, peers, cli>>

\* the tokens of the body of a vault file: text, wiki embeds and standard
\* references, relative to the file or absolute
ObsidianTokens ==
  {<<"txt">>, <<"wiki", <<"x.png">>>>, <<"wiki", <<"sub", "x.png">>>>,
   <<"img", <<"y.png">>>>, <<"img", F1>>, <<"img", F3>>}

\* the tokens of the Markdown of a Notion page
NotionTokens == {<<"txt">>, <<"img", U1>>, <<"img", U1q>>, <<"img", U2>>}

Bodies(tokens) == UNION {[1..n -> tokens] : n \in 0..MaxTokens}

\* the URL processImages gives an image it resolves
UrlOf(locator, type) == PublicUrl(ImageKey(ContentHash(locator), type))

\* processedImages: every image resolved but those whose fetch failed
Processed(imgs, failed) ==
  [k \in DOMAIN imgs |->
     IF imgs[k].url \in failed THEN imgs[k]
     ELSE [imgs[k] EXCEPT !.cloudflareUrl = UrlOf(imgs[k].url, imgs[k].type),
                          !.hash = ContentHash(imgs[k].url)]]

\* syncObsidianFile, steps 2.2 to 4, for the body of a file
RewriteObsidian(content, filePath) ==
  LET markdownImagePaths ==
        extractObsidianImagesFromMarkdown(content, filePath)
      markdownImages ==
        convertLocalPathsToAniviaImages(markdownImagePaths, "markdown")
      imageMap == ObsidianMapFrom(Processed(markdownImages, {}), 1, <<>>)
  IN replaceObsidianImageSyntax(content, imageMap)

\* syncPage, steps 2 to 4, for the Markdown of a page
RewriteNotion(rawMarkdown, failed) ==
  LET markdownImages ==
        convertUrlsToAniviaImages(
          extractNotionImagesFromMarkdown(rawMarkdown), "markdown")
      imageMap == createImageMappings(Processed(markdownImages, failed))
  IN replaceImageUrlsInMarkdown(rawMarkdown, imageMap)

\* the page data syncPageData receives: published documents without images;
\* a vault file has a slug
WrittenPageData ==
  {FinalNotionPageData(d, d.body, <<>>) :
     d \in {n \in NotionDocs("pages") : n.published}}
  \cup {FinalObsidianPageData(d, d.body, <<>>) :
          d \in {o \in ObsidianDocs("mixed") : o.published /\ o.slug # ""}}

\* the rows an earlier write of syncPageData leaves: created at c, updated at u
StoredRows(id) ==
  {RowOf(id, PageRecord(pageData, u) @@ [created_at |-> c]) :
     pageData \in WrittenPageData,
     c \in 1..MaxStamp, u \in 1..MaxStamp}

\* the tables sonder_post can hold with up to two rows: the ids are those of
\* the sequence, no slug twice, and no row updated before it was created
StoredTables ==
  LET Timely(rows) == {x \in rows : x.created_at <= x.updated_at}
  IN {{}} \cup {{r} : r \in Timely(StoredRows(1))}
     \cup {t \in {{r1, r2} : r1 \in Timely(StoredRows(1)),
                            r2 \in Timely(StoredRows(2))} :
            \A x, y \in t : x.slug = y.slug => x = y}

InitPure ==
  /\ Idle
  /\ workspace = "pages"
  /\ peers = NoPeers
  /\ applied \in
       Pending("extractCategories", PropertyBags)
       \cup Pending("replaceObsidianImageSyntax",
                    [markdown : Bodies(ObsidianTokens), file : MdFiles])
       \cup Pending("replaceImageUrlsInMarkdown",
                    [markdown : Bodies(NotionTokens),
                     failed : SUBSET {U1, U1q, U2}])
       \cup Pending("syncPageData",
                    [table : StoredTables, pageData : WrittenPageData,
                     now : {MaxStamp + 1}])
       \cup Pending("callNotionApi", Scripts)
       \cup Pending("downloadAndHashImage", Scripts)

ApplyExtractCategories ==
  /\ Applies("extractCategories")
  /\ Answer(extractCategories(applied.arg))

ApplyReplaceObsidianImageSyntax ==
  /\ Applies("replaceObsidianImageSyntax")
  /\ Answer(RewriteObsidian(applied.arg.markdown, applied.arg.file))

ApplyReplaceImageUrlsInMarkdown ==
  /\ Applies("replaceImageUrlsInMarkdown")
  /\ Answer(RewriteNotion(applied.arg.markdown, applied.arg.failed))

\* the id the sequence gives the next inserted row
NextIdOf(table) == Cardinality(table) + 1

ApplySyncPageData ==
  /\ Applies("syncPageData")
  /\ Answer(syncPageData(applied.arg.table, NextIdOf(applied.arg.table),
                         applied.arg.pageData, applied.arg.now))

ApplyCallNotionApi ==
  /\ Applies("callNotionApi")
  /\ Answer(callNotionApi(applied.arg))

ApplyDownloadAndHashImage ==
  /\ Applies("downloadAndHashImage")
  /\ Answer(downloadAndHashImage(applied.arg))

NextPure ==
  \/ ApplySyncPageData
  \/ ApplyCallNotionApi
  \/ ApplyDownloadAndHashImage
  \/ ApplyExtractCategories
  \/ ApplyReplaceObsidianImageSyntax
  \/ ApplyReplaceImageUrlsInMarkdown

SpecPure == InitPure /\ [][NextPure]_vars

----------------------------------------------------------------------------
\* The HTTP server: POST /webhook/notion/pageUpdate runs syncPage for each
\* request, and the requests in flight interleave at every await

Requests == {1, 2}

IdlePeer ==
  [pc |-> "idle", doc |-> NoDoc, existing |-> {}, decision |-> "NONE",
   target |-> {}, issued |-> "none", ok |-> FALSE, row |-> 0, at |-> 0]

\* the webhook is about one page, which has no images
PeerDocs == NotionDocs("mixed")

PeerIs(p, where) == peers[p].pc = where

PeerStep(p, next) ==
  /\ peers' = [peers EXCEPT ![p] = next]
  /\ UNCHANGED <<db, nextId, store, syncs, workspace, applied, cli>>

\* the request arrives, getPageData answers, then the published check
PeerGetPageData(p) ==
  /\ peers[p].pc \in {"idle", "done"}
  /\ syncs < MaxRequests
  /\ \E d \in PeerDocs :
       peers' = [peers EXCEPT ![p] =
                   [IdlePeer EXCEPT
                      !.doc = d,
                      !.at = peers[p].at,
                      !.pc = IF d.published THEN "lookup" ELSE "done",
                      !.decision = IF d.published THEN "NONE"
                                   ELSE "SKIP_UNPUBLISHED"]]
  /\ syncs' = syncs + 1
  /\ UNCHANGED <<db, nextId, store, workspace, applied, cli>>

\* getPageById answers, then the staleness check
PeerLookup(p) ==
  /\ PeerIs(p, "lookup")
  /\ LET existingPage == getPageById(db, CleanPageId(peers[p].doc.id))
         branch == Decide(existingPage, peers[p].doc.lastEditedTime, FALSE)
     IN PeerStep(p, [peers[p] EXCEPT
                       !.existing = existingPage,
                       !.decision = branch,
                       !.pc = IF branch = "SKIP_UNCHANGED" THEN "done"
                              ELSE "convert"])

\* the Markdown arrives; the page has no images to process
PeerConvert(p) ==
  /\ PeerIs(p, "convert")
  /\ PeerStep(p, [peers[p] EXCEPT !.pc = "find"])

PeerPageData(p) == FinalNotionPageData(peers[p].doc, peers[p].doc.body, <<>>)

\* syncPageData: getPageBySlug and getPageByOrigin answer
PeerFindRow(p) ==
  /\ PeerIs(p, "find")
  /\ PeerStep(p, [peers[p] EXCEPT
                    !.target = ExistingForWrite(db, PeerPageData(p)),
                    !.pc = "write"])

\* variant of WriteTarget that reads the table again when the write is issued
WriteTargetReread(table, found, pageData) == ExistingForWrite(table, pageData)

\* if (existingPage): the row the write goes to is the one found before
WriteTarget(table, found, pageData) == found

\* the place of a write among the writes of the server; at is the place of
\* the last write of a connection
WriteOrder(ps) ==
  1 + (CHOOSE n \in 0..MaxRequests :
         /\ \A q \in DOMAIN ps : ps[q].at <= n
         /\ (n = 0 \/ \E q \in DOMAIN ps : ps[q].at = n))

\* syncPageData: updatePage or insertPage answers; a rejected write ends the
\* process of the server, and with it every request in flight
PeerWrite(p) ==
  /\ PeerIs(p, "write")
  /\ LET record == PageRecord(PeerPageData(p), Clock)
         existingPage == WriteTarget(db, peers[p].target, PeerPageData(p))
         w == IF existingPage # {}
              THEN updatePage(db, TheRow(existingPage).id, record)
              ELSE insertPage(db, nextId, record @@ [created_at |-> Clock])
         mine == [peers[p] EXCEPT !.issued = w.kind, !.ok = w.ok,
                                  !.row = w.row, !.at = WriteOrder(peers)]
     IN /\ db' = w.table
        /\ nextId' = IF w.ok /\ w.kind = "insert" THEN nextId + 1 ELSE nextId
        /\ peers' = IF w.ok
                    THEN [peers EXCEPT ![p] = [mine EXCEPT !.pc = "done"]]
                    ELSE [q \in Requests |->
                            [(IF q = p THEN mine ELSE peers[q]) EXCEPT
                               !.pc = "exited"]]
  /\ UNCHANGED <<store, syncs, workspace, applied, cli>>

InitServer ==
  /\ Idle
  /\ workspace = "mixed"
  /\ applied = NoCall
  /\ peers = [p \in Requests |-> IdlePeer]

NextServer ==
  \/ \E p \in Requests : PeerGetPageData(p)
  \/ \E p \in Requests : PeerLookup(p)
  \/ \E p \in Requests : PeerConvert(p)
  \/ \E p \in Requests : PeerFindRow(p)
  \/ \E p \in Requests : PeerWrite(p)

SpecServer == InitServer /\ [][NextServer]_vars

----------------------------------------------------------------------------
\* Properties

\* the sync in progress has settled (resolved or rejected) and is not counted
Settled == pc = "returned"

NoWrites == eff.puts = 0 /\ eff.inserts = 0 /\ eff.updates = 0

\* the row the settled sync wrote
SavedRow == CHOOSE r \in db : r.id = eff.row

\* the Markdown body holds an image reference to u
InBody(body, u) == \E k \in DOMAIN body : Len(body[k]) >= 2 /\ body[k][2] = u

\* C1: a published document synced twice in succession, unchanged and without
\* force, is skipped as SKIP_UNCHANGED the second time, with no put, no insert
\* and no update (a local file is a document once it has a slug).
C1_Idempotence ==
  (/\ Settled
   /\ repeat
   /\ doc.published
   /\ (doc.origin = "obsidian" => doc.slug # ""))
  => (/\ result = "skipped"
      /\ decision = "SKIP_UNCHANGED"
      /\ NoWrites)

\* C2: the sync of a document whose published flag is false, of either
\* origin, with or without force, inserts and updates nothing and is a skip.
C2_UnpublishedGate ==
  (doc.origin # "none" /\ ~doc.published)
  => (/\ eff.inserts = 0
      /\ eff.updates = 0
      /\ (Settled => result = "skipped"))

\* C3: for a published document without force, the staleness check skips
\* (SKIP_UNCHANGED, nothing written) exactly when a record was found and the
\* incoming time is not strictly greater than the record's, decides UPDATE
\* exactly when a record was found and the incoming time is strictly greater,
\* and decides CREATE when no record was found; after UPDATE or CREATE the
\* sync goes on.
C3_StalenessDecision ==
  (/\ decision \in {"SKIP_UNCHANGED", "UPDATE", "CREATE"}
   /\ doc.published
   /\ ~cmd.force)
  => /\ (existing = {}) <=> (decision = "CREATE")
     /\ existing # {} =>
          /\ (decision = "SKIP_UNCHANGED") <=>
               ~(doc.lastEditedTime > TheRow(existing).last_edited_time)
          /\ (decision = "UPDATE") <=>
               (doc.lastEditedTime > TheRow(existing).last_edited_time)
     /\ decision = "SKIP_UNCHANGED" =>
          Settled /\ result = "skipped" /\ NoWrites
     /\ decision # "SKIP_UNCHANGED" =>
          pc \in {"convert", "images", "returned", "exited"}
          /\ result # "skipped"

\* a published document, not forced, found its record with an equal time and
\* was skipped
C3_Witness ==
  /\ decision = "SKIP_UNCHANGED"
  /\ doc.published
  /\ ~cmd.force
  /\ existing # {}
  /\ doc.lastEditedTime = TheRow(existing).last_edited_time
  /\ Settled

\* C4: a forced sync of a published Notion page that has a record with a time
\* not older than the incoming one is not skipped, and when it completes it
\* has made exactly one update, of the record it found, and no insert.
C4_ForceBypass ==
  (/\ cmd.kind = "notion"
   /\ cmd.force
   /\ doc.published
   /\ existing # {}
   /\ doc.lastEditedTime <= TheRow(existing).last_edited_time)
  => /\ decision = "UPDATE"
     /\ (Settled => result # "skipped")
     /\ (Settled /\ result = "synced") =>
          /\ eff.updates = 1
          /\ eff.inserts = 0
          /\ eff.row = TheRow(existing).id

\* the fetch of the image failed
FetchFailed(img) == img.st = "failed" \/ (img.st = "exit" /\ cause = "fetch")

\* C5: when a document has several embedded images and the fetch of one
\* fails, the process does not end there; the sync completes and persists the
\* document, the failed image keeps its locator in the persisted body and
\* every other embedded image is rewritten to its storage URL.
C5_GracefulDegradation ==
  \A k \in DOMAIN images :
    (/\ images[k].type = "markdown"
     /\ Len(SelectType(images, "markdown")) >= 2
     /\ FetchFailed(images[k]))
    => /\ ~(pc = "exited" /\ cause = "fetch")
       /\ Settled =>
            /\ result = "synced"
            /\ InBody(SavedRow.content, images[k].url)
            /\ \A j \in DOMAIN images :
                 (/\ j # k
                  /\ images[j].type = "markdown"
                  /\ ~FetchFailed(images[j]))
                 => /\ images[j].cloudflareUrl # <<>>
                    /\ InBody(SavedRow.content, images[j].cloudflareUrl)
                    /\ ~InBody(SavedRow.content, images[j].url)

\* C6: a failure to fetch, transcode or upload one image never ends the
\* process; processImages returns that image without a URL and the sync
\* goes on to persistence.
C6_ErrorsContained ==
  \A k \in DOMAIN images :
    /\ ~(images[k].st = "exit" /\ cause \in {"fetch", "upload"})
    /\ images[k].st = "failed" =>
         /\ images[k].cloudflareUrl = <<>>
         /\ (Settled => result = "synced")

\* C7: two resolved images with the same bytes and the same role have the
\* same URL, whatever their locators and whichever sync resolved them.
C7_ContentAddressing ==
  \A a \in resolved, b \in resolved :
    (a.bytes = b.bytes /\ a.type = b.type) => a.url = b.url

\* a local file and a remote URL with the same bytes, resolved as covers by
\* two different syncs, share their URL
C7_Witness ==
  \E a \in resolved, b \in resolved :
    /\ a.locator \in LocalImageFiles
    /\ IsRemoteUrl(b.locator)
    /\ a.bytes = b.bytes
    /\ a.type = b.type
    /\ a.url = b.url

\* C8: two resolved images with the same bytes and different roles have
\* different URLs, and an image found by the existence probe was put under
\* its own role.
C8_RolePartitioning ==
  /\ \A a \in resolved, b \in resolved :
       (a.bytes = b.bytes /\ a.type # b.type) => a.url # b.url
  /\ \A a \in resolved :
       a.how = "found" =>
         \E b \in resolved :
           b.how = "put" /\ b.type = a.type /\ b.url = a.url

\* the same bytes were put under two roles, at two URLs
C8_Witness ==
  \E a \in resolved, b \in resolved :
    /\ a.bytes = b.bytes
    /\ a.type # b.type
    /\ a.how = "put"
    /\ b.how = "put"
    /\ a.url # b.url

\* C9: when a batch command over at least one document has ended, every
\* document was processed and counted once, the tally and the failure list
\* were printed, and the exit status is non-zero exactly when a document
\* failed.
C9_BatchTally ==
  (cmd.kind \in {"notion", "obsidian"} /\ cmd.n > 0 /\ exitCode # -1)
  => /\ tally.printed
     /\ cmd.i = cmd.n
     /\ tally.successCount + tally.skippedCount + tally.failCount = cmd.n
     /\ Len(tally.errors) = tally.failCount
     /\ (exitCode = 0) <=> (tally.failCount = 0)

\* the sync of a local file without slug has settled
NoSlugSettled == Settled /\ cmd.kind = "obsidian" /\ doc.slug = ""

\* C10, as claimed: a local file without slug writes nothing, is counted as a
\* failure and the batch goes on.
C10_MissingSlugFails ==
  [][NoSlugSettled =>
       /\ NoWrites
       /\ tally'.failCount = tally.failCount + 1
       /\ tally'.skippedCount = tally.skippedCount
       /\ tally'.successCount = tally.successCount
       /\ pc' = "loop"]_vars

\* C10, amended: a local file without slug writes nothing to the bucket or
\* the table, is counted as a skip (not as a failure, not as a success) and
\* the batch goes on with the next file.
C10_MissingSlugSkipped ==
  [][NoSlugSettled =>
       /\ NoWrites
       /\ result = "skipped"
       /\ tally' = [tally EXCEPT !.skippedCount = @ + 1]
       /\ db' = db
       /\ store' = store
       /\ cmd'.i = cmd.i + 1
       /\ pc' = "loop"
       /\ exitCode' = -1]_vars

\* the first file of a batch of two had no slug and was counted as skipped;
\* the second is still to come
C10_Witness ==
  /\ pc = "loop"
  /\ cmd.kind = "obsidian"
  /\ cmd.i = 1
  /\ cmd.n = 2
  /\ last.doc.origin = "obsidian"
  /\ last.doc.slug = ""
  /\ tally.skippedCount = 1
  /\ tally.failCount = 0
  /\ exitCode = -1

\* the properties of a bag that carry the categories field as a multi_select
CategoryAliases(bag) ==
  {k \in DOMAIN bag :
     /\ bag[k].value.type = "multi_select"
     /\ \E c \in DOMAIN CategoryPropertyNames :
          MatchesName(CategoryPropertyNames[c], bag[k].key)}

\* the place of a property name in the candidate list of the mapping table
CandidateRank(propertyName) ==
  CHOOSE c \in DOMAIN CategoryPropertyNames :
    /\ MatchesName(CategoryPropertyNames[c], propertyName)
    /\ \A b \in 1..(c - 1) : ~MatchesName(CategoryPropertyNames[b], propertyName)

\* C11: when the bag holds two aliases of the categories field with different
\* values, extractCategories returns the value of the alias that comes first
\* in the candidate list of the mapping table, whatever the order of the bag
C11_AliasOrder ==
  (applied.fn = "extractCategories" /\ applied.done) =>
    \A i, j \in CategoryAliases(applied.arg) :
      (/\ applied.arg[i].value # applied.arg[j].value
       /\ CandidateRank(applied.arg[i].key) < CandidateRank(applied.arg[j].key))
      => applied.out = applied.arg[i].value.names

\* the first sync of an empty table and an empty bucket is of a published page
\* whose only image is ![](https://src/a.png) in the body (bytes 1, md5 h1);
\* the image was resolved and the sync has settled
OneImagePage ==
  /\ Settled
  /\ cmd.kind = "notion"
  /\ syncs = 1
  /\ doc.published
  /\ doc.body = <<<<"img", U1>>, <<"txt">>>>
  /\ doc.featuredImg = <<>> /\ doc.galleryImgs = <<>>
  /\ Len(images) = 1 /\ images[1].st = "done"

\* one put at the key, one insert, no update, and the body of the row has the
\* public URL of the key where the page had the source URL
CreatedWithImageAt(key) ==
  /\ result = "synced"
  /\ eff.puts = 1 /\ store = {key}
  /\ eff.inserts = 1 /\ eff.updates = 0
  /\ Cardinality(db) = 1
  /\ SavedRow.content = <<<<"img", PublicUrl(key)>>, <<"txt">>>>

\* C12 as stated: the end-to-end create puts the image once at the key
\* embedded/h1.<ext> and inserts one row whose body has the public URL of that
\* key in place of the source URL
C12_EndToEndCreate ==
  OneImagePage =>
    \E ext \in {"webp", "png"} : CreatedWithImageAt(<<"embedded", "h1", ext>>)

\* C12, amended: the end-to-end create puts the image once at the key
\* posts/h1.webp and inserts one row (no update) whose body has the public URL
\* of that key in place of the source URL
C12_EndToEndCreateInPosts ==
  OneImagePage => CreatedWithImageAt(<<"posts", "h1", "webp">>)

C12_Witness == OneImagePage /\ result = "synced" /\ eff.puts = 1

\* the existence probe of an image failed with 401 (or any error but 404)
ProbeFailed == cause = "probe"

\* C13: when the existence probe fails with 401 the process ends with status
\* 1: the image is not returned as a failed image (its task ends with the
\* process), the images in progress get no URL, the sync does not settle,
\* nothing is written to the table for the document, and from then on no
\* image and no document of this run is processed
C13_AuthFailureFatal ==
  /\ [](ProbeFailed =>
          /\ pc = "exited" /\ exitCode = 1
          /\ \E k \in DOMAIN images :
               images[k].st = "exit" /\ images[k].cloudflareUrl = <<>>
          /\ \A k \in DOMAIN images : images[k].st \in {"probe", "put"} =>
               images[k].cloudflareUrl = <<>>
          /\ result = "none"
          /\ eff.inserts = 0 /\ eff.updates = 0)
  /\ [][ProbeFailed =>
          /\ db' = db /\ store' = store /\ syncs' = syncs
          /\ tally' = NoTally
          /\ images' = <<>>]_vars

\* the probe of one image failed while the other image was still in progress
C13_Witness ==
  /\ ProbeFailed
  /\ Len(images) = 2
  /\ \E k \in DOMAIN images : images[k].st \in {"fetch", "probe", "put"}

\* the row holds the page data in every column but the stamps of the write
HoldsPage(row, pageData) ==
  LET record == PageRecord(pageData, 0)
  IN \A column \in DOMAIN record \ {"updated_at"} :
       row[column] = record[column]

\* request p has issued its write
Wrote(p) == peers[p].issued # "none"

\* the write of request p is the last one the table received
LastWriter(p) == Wrote(p) /\ \A q \in Requests : peers[q].at <= peers[p].at

\* C14: nothing spans the lookup and the write of a sync. A request decides
\* CREATE exactly when its own lookup found no row, whatever the other request
\* does meanwhile, and then issues an insert even when the other request has
\* inserted the page since; a request whose lookup found the row issues an
\* update of that row, and of two such updates the table keeps the later one
C14_LookupWriteRace ==
  \A p \in Requests :
    /\ peers[p].decision = "CREATE" => peers[p].existing = {}
    /\ peers[p].decision = "UPDATE" => peers[p].existing # {}
    /\ Wrote(p) =>
         /\ peers[p].issued = "insert" <=> peers[p].target = {}
         /\ peers[p].issued = "update" =>
              peers[p].row = TheRow(peers[p].target).id
    /\ (LastWriter(p) /\ peers[p].ok) =>
         \E r \in db : r.id = peers[p].row /\ HoldsPage(r, PeerPageData(p))

\* both requests looked the page up before either wrote, both decided CREATE
\* and both issued an insert
C14_Witness ==
  \A p \in Requests :
    /\ peers[p].decision = "CREATE"
    /\ peers[p].issued = "insert"

\* both requests decided UPDATE on the same row with different page data, and
\* the row no longer holds what the earlier one wrote
BothUpdated ==
  \E p, q \in Requests :
    /\ peers[p].decision = "UPDATE" /\ peers[q].decision = "UPDATE"
    /\ peers[p].issued = "update" /\ peers[q].issued = "update"
    /\ peers[p].ok /\ peers[q].ok
    /\ peers[p].row = peers[q].row
    /\ peers[p].at < peers[q].at
    /\ PeerPageData(p) # PeerPageData(q)
    /\ peers[p].target = peers[q].target
    /\ \A r \in db : r.id = peers[p].row => ~HoldsPage(r, PeerPageData(p))

\* C15: while the image tasks of a document run nothing of the document is
\* rewritten or written; when the document is saved every task has finished,
\* with a URL or without, and the saved body has the URL of every resolved
\* Markdown image and none of their locators, in whatever order the tasks
\* finished
C15_RewriteAfterJoin ==
  /\ pc = "images" => eff.inserts = 0 /\ eff.updates = 0
  /\ (Settled /\ result = "synced") =>
       \A k \in DOMAIN images :
         /\ Finished(images[k])
         /\ (images[k].type = "markdown" /\ images[k].cloudflareUrl # <<>>) =>
              /\ InBody(SavedRow.content, images[k].cloudflareUrl)
              /\ ~InBody(SavedRow.content, images[k].url)

\* a document was saved after one of its images failed and the other was
\* resolved
C15_Witness ==
  /\ Settled /\ result = "synced"
  /\ Len(images) = 2
  /\ images[1].st = "failed"
  /\ images[2].st = "done"
  /\ InBody(SavedRow.content, images[2].cloudflareUrl)

\* the key checkImageExists probes for an image whose bytes were hashed
ProbedKey(img) == ImageKey(img.hash, img.type)

\* the task of image k moves from one position to another in this step
Moves(k, from, to) ==
  /\ k \in DOMAIN images /\ k \in DOMAIN images'
  /\ pc = "images" /\ pc' = "images"
  /\ images[k].st = from /\ images'[k].st = to

\* C16: an image whose bytes were obtained is always probed next, whether or
\* not its hash is in uploadedImages; its put is reached only from a probe
\* that found no object at the key of its type and hash; a probe that finds
\* the object gives the image the public URL of that key without a put; and
\* the bucket changes only by the put of an image probed absent
C16_ProbeBeforePut ==
  [][/\ \A k \in 1..2 :
          /\ (k \in DOMAIN images /\ pc = "images" /\ images[k].st = "fetch")
               => (k \in DOMAIN images' => images'[k].st \in
                     {"fetch", "probe", "failed", "exit"})
          /\ (\E from \in {"fetch", "probe", "done", "failed"} :
                Moves(k, from, "put"))
               => /\ images[k].st = "probe"
                  /\ ProbedKey(images[k]) \notin store
          /\ (Moves(k, "probe", "done") \/ Moves(k, "probe", "put"))
               => /\ store' = store /\ eff'.puts = eff.puts
                  /\ (ProbedKey(images[k]) \in store =>
                        /\ images'[k].st = "done"
                        /\ images'[k].cloudflareUrl =
                             PublicUrl(ProbedKey(images[k])))
     /\ (store' # store \/ eff'.puts > eff.puts)
          => \E k \in 1..2 : Moves(k, "put", "done")]_vars

\* every image of a saved document was found by its probe and resolved to
\* the object in the bucket, without a put
C16_Witness ==
  /\ Settled /\ result = "synced"
  /\ Len(images) > 0
  /\ \A k \in DOMAIN images :
       /\ images[k].st = "done"
       /\ images[k].hash \in uploadedImages
  /\ eff.puts = 0

\* C17: a Notion page that getPageData returned with published = false is
\* never looked up in the table, converted or scanned for images: the sync is
\* at no position past the published check, it has settled as skipped with no
\* row looked up, no image and no write
C17_UnpublishedSkipFirst ==
  (doc.origin = "notion" /\ ~doc.published) =>
    /\ pc = "returned"
    /\ result = "skipped"
    /\ decision = "SKIP_UNPUBLISHED"
    /\ existing = {}
    /\ images = <<>>
    /\ NoWrites

\* an unpublished page was skipped although the table holds its row, which a
\* lookup would have found
C17_Witness ==
  /\ Settled
  /\ doc.origin = "notion" /\ ~doc.published
  /\ getPageById(db, CleanPageId(doc.id)) # {}
  /\ existing = {}

\* the file a token of the body of a vault file refers to, '' when none
RefersTo(tok, filePath) ==
  IF tok[1] = "wiki" \/ (tok[1] = "img" /\ ~IsRemoteUrl(tok[2]))
  THEN resolveObsidianImagePath(tok[2], filePath)
  ELSE <<>>

\* C18: after replaceObsidianImageSyntax every wiki embed and every standard
\* reference to a local file, relative or absolute, has become a reference to
\* the URL of the file at the full path it resolves to, also when two files
\* in different directories have the same name
C18_RewriteByFullPath ==
  (applied.fn = "replaceObsidianImageSyntax" /\ applied.done) =>
    \A k \in DOMAIN applied.arg.markdown :
      LET localPath == RefersTo(applied.arg.markdown[k], applied.arg.file)
      IN localPath # <<>> =>
           applied.out[k] = <<"img", UrlOf(localPath, "markdown")>>

\* C19: after replaceImageUrlsInMarkdown every image whose URL is in the map
\* refers to its Cloudflare URL, at every occurrence, and everything else,
\* the images without a map entry included, is as it was; with an empty map
\* the Markdown is returned as it came
C19_RewriteAllOccurrences ==
  (applied.fn = "replaceImageUrlsInMarkdown" /\ applied.done) =>
    \A k \in DOMAIN applied.arg.markdown :
      LET tok == applied.arg.markdown[k]
      IN IF tok[1] = "img" /\ tok[2] \notin applied.arg.failed
         THEN applied.out[k] = <<"img", UrlOf(tok[2], "markdown")>>
         ELSE applied.out[k] = tok

\* row `new` is row `old` after an update with the page data at `now`: same
\* id and created_at, every other column from the page data, updated_at now
UpdatedFrom(old, new, pageData, now) ==
  /\ new.id = old.id
  /\ new.created_at = old.created_at
  /\ new.updated_at = now
  /\ HoldsPage(new, pageData)
  /\ DOMAIN new = DOMAIN old

\* C20: an update of syncPageData changes exactly one row of the table, the
\* row its lookup found: the id and created_at stay, every other column gets
\* the value of the incoming page data and updated_at is stamped anew, and no
\* row is added; an insert adds exactly one row, with the next id and a
\* created_at stamp, and changes no row; a rejected write changes nothing
C20_WholeRecordApply ==
  (applied.fn = "syncPageData" /\ applied.done) =>
    LET table == applied.arg.table
        pageData == applied.arg.pageData
        now == applied.arg.now
        found == ExistingForWrite(table, pageData)
        w == applied.out
    IN /\ w.kind = "update" <=> found # {}
       /\ ~w.ok => w.table = table
       /\ (w.ok /\ w.kind = "update") =>
            \E old \in table, new \in w.table :
              /\ found = {old} /\ w.row = old.id
              /\ UpdatedFrom(old, new, pageData, now)
              /\ w.table = (table \ {old}) \cup {new}
              /\ Cardinality(w.table) = Cardinality(table)
       /\ (w.ok /\ w.kind = "insert") =>
            \E new \in w.table :
              /\ new \notin table
              /\ \A r \in table : r.id # new.id
              /\ new.id = w.row
              /\ new.created_at = now /\ new.updated_at = now
              /\ HoldsPage(new, pageData)
              /\ w.table = table \cup {new}

\* a row of a table of two rows was updated with other page data than it
\* held, some time after it was created
C20_Witness ==
  /\ applied.fn = "syncPageData" /\ applied.done
  /\ applied.out.ok /\ applied.out.kind = "update"
  /\ Cardinality(applied.arg.table) = 2
  /\ \E old \in applied.arg.table :
       /\ old.id = applied.out.row
       /\ ~HoldsPage(old, applied.arg.pageData)
       /\ old.created_at < applied.arg.now
       /\ old \notin applied.out.table

\* a document sync is between its source fetch and its return
InSync == pc \in {"lookup", "convert", "images"}

\* the documents the loop has counted so far
Counted == tally.successCount + tally.skippedCount + tally.failCount

\* C21: the documents of a batch are synced strictly one after the other. The
\* source fetch of a document happens only at the head of the loop, when the
\* previous document was counted and nothing of it is left; while a sync is
\* between its fetch and its return the loop does not advance and no other
\* document is fetched; the table and the bucket change only within the sync
\* of the current document, the write to the table being its last step; and
\* the loop advances only from a sync that has returned
C21_SequentialBatch ==
  [][/\ syncs' # syncs =>
          /\ pc = "loop"
          /\ doc = NoDoc /\ images = <<>> /\ eff = NoEff /\ result = "none"
          /\ Counted = cmd.i
     /\ InSync => doc' = doc /\ cmd' = cmd /\ syncs' = syncs /\ tally' = tally
     /\ (store' # store \/ db' # db) => InSync
     /\ images' # images =>
          \/ InSync
          \/ syncs' # syncs
          \/ images' = <<>>
     /\ db' # db => pc' = "returned" /\ result' = "synced"
     /\ cmd'.i # cmd.i =>
          \/ pc = "returned" /\ pc' = "loop" /\ cmd'.i = cmd.i + 1
          \/ cmd'.i = 0]_vars

\* the second document of a batch is in its image tasks after the first was
\* saved and counted
C21_Witness ==
  /\ pc = "images"
  /\ cmd.n = 2 /\ cmd.i = 1
  /\ tally.successCount = 1
  /\ db # {}
  /\ \E k \in DOMAIN images : images[k].st = "probe"

\* C22: a call to the document source or a fetch of an image that meets a
\* retryable error (429, 502, 503, 504, ECONNRESET, ETIMEDOUT, rate_limited)
\* is attempted again, at most DefaultMaxRetries times in all; a call that
\* meets any other error is not attempted again; and the call ends in error
\* only at an error that is not retryable or at the last attempt
C22_BoundedRetry ==
  (applied.fn \in {"callNotionApi", "downloadAndHashImage"} /\ applied.done) =>
    LET script == applied.arg
        n == applied.out.attempts
    IN /\ n \in 1..DefaultMaxRetries
       /\ \A k \in 1..(n - 1) :
            script[k] # Answered /\ isRetryableError(script[k])
       /\ script[n] = Answered => applied.out.outcome = "ok"
       /\ script[n] # Answered =>
            /\ applied.out.outcome # "ok"
            /\ (n = DefaultMaxRetries \/ ~isRetryableError(script[n]))

\* C23: the sync of a vault file whose front matter names a remote http(s)
\* URL as featured_img does not end at the cover: the cover is not read, not
\* put in the bucket, the sync completes and the row has the URL unchanged
C23_RemoteCoverKept ==
  (doc.origin = "obsidian" /\ IsRemoteUrl(doc.featuredImg)) =>
    /\ ~(pc = "exited" /\ cause = "fetch")
    /\ eff.puts = 0
    /\ Settled =>
         /\ result = "synced"
         /\ SavedRow.featured_img = doc.featuredImg

\* C24: the row a completed sync wrote is the row its staleness check looked
\* up: after UPDATE it made one update, of the row found, and no insert; after
\* CREATE it made one insert and no update, so that no row of another
\* document or of the other origin is modified
C24_DecideApplySameRow ==
  (Settled /\ result = "synced") =>
    /\ existing # {} =>
         /\ eff.updates = 1 /\ eff.inserts = 0
         /\ eff.row = TheRow(existing).id
    /\ existing = {} =>
         /\ eff.inserts = 1 /\ eff.updates = 0
         /\ \A r \in db : r.id # eff.row => r.post_origin # doc.origin
                                              \/ r.slug # doc.slug

\* no two rows of origin notion have the same non-empty notion_page_id
OneRowPerPageId ==
  \A r1 \in db, r2 \in db :
    (/\ r1.post_origin = "notion" /\ r2.post_origin = "notion"
     /\ r1.notion_page_id # <<>>
     /\ r1.notion_page_id = r2.notion_page_id) => r1 = r2

\* C25: the table holds at most one row of origin notion with a given
\* non-empty notion_page_id and at most one row with a given slug, and the
\* write of a published Notion page is never rejected, so that any two
\* distinct published pages can both be persisted
C25_OneRowPerKey ==
  /\ OneRowPerPageId
  /\ \A r1 \in db, r2 \in db : r1.slug = r2.slug => r1 = r2
  /\ (cmd.kind = "notion" /\ doc.published /\ pc = "exited") => cause # "write"

\* the row was written by a run over the page as it is now that resolved
\* every image: the body has an image with another URL where the page has an
\* image, and is the same elsewhere; the cover and the gallery are complete
HoldsEveryImage(row, pageData) ==
  /\ Len(row.content) = Len(pageData.body)
  /\ \A k \in DOMAIN pageData.body :
       IF pageData.body[k][1] = "img" /\ IsRemoteUrl(pageData.body[k][2])
       THEN /\ k \in DOMAIN row.content
            /\ row.content[k][1] = "img"
            /\ row.content[k][2] # pageData.body[k][2]
       ELSE k \in DOMAIN row.content /\ row.content[k] = pageData.body[k]
  /\ (pageData.featuredImg = <<>>) <=> (row.featured_img = <<>>)
  /\ Len(row.gallery_imgs) = Len(pageData.galleryImgs)

\* a forced sync of a published page with images found the row of an earlier
\* run that had resolved all of them
ForcedResync ==
  /\ cmd.kind = "notion" /\ cmd.force
  /\ doc.published
  /\ existing # {}
  /\ pc \in {"images", "returned"}
  /\ images # <<>>
  /\ HoldsEveryImage(TheRow(existing), doc)

\* C26: in a forced sync of a published page whose images were all resolved
\* by an earlier run, no image is put: every probe finds the object at the
\* key the earlier run put it at; and when the sync completes with every
\* image fetched it has made no put, exactly one update and no insert, and
\* the row has the same storage URLs, in the body, as cover and as gallery,
\* as the earlier run left
C26_ForcedResyncNoPut ==
  ForcedResync =>
    /\ eff.puts = 0
    /\ \A k \in DOMAIN images : images[k].st # "put"
    /\ (Settled /\ result = "synced"
        /\ \A k \in DOMAIN images : images[k].st = "done") =>
         /\ eff.updates = 1 /\ eff.inserts = 0
         /\ SavedRow.content = TheRow(existing).content
         /\ SavedRow.featured_img = TheRow(existing).featured_img
         /\ SavedRow.gallery_imgs = TheRow(existing).gallery_imgs

\* the forced sync of a page with two images has completed; each image was
\* found by its probe
C26_Witness ==
  /\ ForcedResync
  /\ Settled /\ result = "synced"
  /\ Len(images) = 2
  /\ \A k \in DOMAIN images :
       images[k].st = "done" /\ images[k].cloudflareUrl # <<>>
  /\ eff.updates = 1

\* two images of one processImages call with the same bytes and the same role
Duplicates(j, k) ==
  /\ j # k
  /\ images[j].st = "done" /\ images[k].st = "done"
  /\ images[j].buffer = images[k].buffer
  /\ images[j].type = images[k].type

\* C27: two images of one processImages call that have the same bytes and the
\* same role end with the same hash and the same URL, that of the one key of
\* their bytes and role, and the bucket holds the object at that key,
\* whichever task probed or put first and whether the key was put once or
\* twice (a second put replaces the object)
C27_DuplicatesConverge ==
  \A j \in DOMAIN images, k \in DOMAIN images :
    Duplicates(j, k) =>
      /\ images[j].cloudflareUrl = images[k].cloudflareUrl
      /\ images[j].hash = images[k].hash
      /\ images[j].cloudflareUrl =
           PublicUrl(ImageKey(Md5(images[j].buffer), images[j].type))
      /\ ImageKey(Md5(images[j].buffer), images[j].type) \in store
      /\ Cardinality({key \in store :
                        PublicUrl(key) \in {images[j].cloudflareUrl,
                                            images[k].cloudflareUrl}}) = 1

\* both tasks probed before either put: the key was put twice
C27_Witness ==
  /\ pc = "images"
  /\ \E j \in DOMAIN images, k \in DOMAIN images :
       /\ Duplicates(j, k)
       /\ images[j].url # images[k].url
  /\ eff.puts = 2

\* allImages as the sync in progress handed them to processImages
InputImages ==
  IF cmd.kind = "notion" THEN NotionImages(doc, doc.body)
  ELSE ObsidianImages(doc, doc.body, doc.id)

\* the images are with processImages, or the sync has saved the document
Processing == pc = "images" \/ (Settled /\ result = "synced")

\* the URLs of the resolved gallery images of the page, in the order of the
\* page; the gallery images are the last of allImages
ResolvedGallery ==
  LET first == Len(images) - Len(doc.galleryImgs)
      urls == [k \in DOMAIN doc.galleryImgs |->
                 IF images[first + k].st = "done"
                 THEN UrlOf(doc.galleryImgs[k], "gallery") ELSE <<>>]
  IN SelectSeq(urls, LAMBDA url : url # <<>>)

\* C28: processImages keeps one image per input, at the place of its input:
\* image i has the locator, the role and the name of input i, and when it is
\* resolved its URL is that of the bytes and the role of input i, in whatever
\* order the tasks finish; so the saved gallery_imgs are the URLs of the
\* resolved gallery images in the order of the page, and the saved cover is
\* empty or the URL of the cover in the cover directory
C28_PositionalResults ==
  Processing =>
    /\ Len(images) = Len(InputImages)
    /\ \A k \in DOMAIN images :
         /\ k \in DOMAIN InputImages
         /\ images[k].url = InputImages[k].url
         /\ images[k].originalUrl = InputImages[k].originalUrl
         /\ images[k].type = InputImages[k].type
         /\ images[k].filename = InputImages[k].filename
         /\ images[k].st = "done" =>
              images[k].cloudflareUrl =
                UrlOf(InputImages[k].url, InputImages[k].type)
    /\ (Settled /\ cmd.kind = "notion") =>
         /\ SavedRow.gallery_imgs = ResolvedGallery
         /\ SavedRow.featured_img \in
              {<<>>, UrlOf(doc.featuredImg, "featured")}
         /\ doc.featuredImg = <<>> => SavedRow.featured_img = <<>>

\* a page with two gallery images of different bytes was saved with both
\* resolved, in the order of the page
C28_Witness ==
  /\ Settled /\ result = "synced" /\ cmd.kind = "notion"
  /\ Len(doc.galleryImgs) = 2
  /\ SavedRow.gallery_imgs =
       <<UrlOf(doc.galleryImgs[1], "gallery"), UrlOf(doc.galleryImgs[2], "gallery")>>
  /\ SavedRow.gallery_imgs[1] # SavedRow.gallery_imgs[2]

\* a URL of the bucket
IsStorageUrl(u) == Len(u) > 2 /\ u[1] = "https:" /\ u[2] = "cdn"

\* image k of the run was resolved as `type` to the URL
ResolvedHere(type, url) ==
  \E k \in DOMAIN images :
    /\ images[k].type = type
    /\ images[k].st = "done"
    /\ images[k].cloudflareUrl = url

\* C29: the row a completed syncPage saved has as featured_img either nothing
\* or the storage URL the cover was resolved to in this run, and as
\* gallery_imgs only storage URLs gallery images were resolved to in this
\* run, one for each resolved gallery image; a cover or gallery image that
\* was not resolved is left out, and its source URL is never saved
C29_OnlyStorageUrls ==
  (Settled /\ result = "synced" /\ cmd.kind = "notion") =>
    /\ SavedRow.featured_img # <<>> =>
         /\ IsStorageUrl(SavedRow.featured_img)
         /\ ResolvedHere("featured", SavedRow.featured_img)
    /\ \A g \in DOMAIN SavedRow.gallery_imgs :
         /\ IsStorageUrl(SavedRow.gallery_imgs[g])
         /\ ResolvedHere("gallery", SavedRow.gallery_imgs[g])
    /\ Len(SavedRow.gallery_imgs) =
         Len(SelectSeq(images,
               LAMBDA img : img.type = "gallery" /\ img.st = "done"))
    /\ \A k \in DOMAIN images :
         (images[k].type \in {"featured", "gallery"} /\ images[k].st # "done")
         => /\ SavedRow.featured_img # images[k].url
            /\ ~InSeq(images[k].url, SavedRow.gallery_imgs)

\* a page was saved after its first gallery image failed and the second was
\* resolved: the row has the one URL
C29_Witness ==
  /\ Settled /\ result = "synced" /\ cmd.kind = "notion"
  /\ Len(images) = 2
  /\ images[1].type = "gallery" /\ images[1].st = "failed"
  /\ images[2].type = "gallery" /\ images[2].st = "done"
  /\ SavedRow.gallery_imgs = <<images[2].cloudflareUrl>>

\* C30: in sync-notion-database the three counters always add up to the
\* number of pages the loop has gone through, and the failure list has one
\* message for each failure; when the loop has completed they add up to the
\* number of pages of the query, and has_updates is reported, true exactly
\* when successCount is greater than 0
C30_TallyPartition ==
  /\ (cmd.kind = "notion" /\ pc \in {"loop", "finished"}) =>
       /\ Counted = cmd.i
       /\ Len(tally.errors) = tally.failCount
       /\ tally.successCount >= 0 /\ tally.skippedCount >= 0
       /\ tally.failCount >= 0
  /\ (cmd.kind = "notion" /\ pc = "finished") =>
       /\ cmd.i = cmd.n
       /\ Counted = cmd.n
       /\ tally.hasUpdates \in {"true", "false"}
       /\ (tally.hasUpdates = "true") <=> (tally.successCount > 0)
  /\ (cmd.kind = "notion" /\ pc # "finished") => tally.hasUpdates = "none"

\* a batch of two pages ended with one page skipped and one failed:
\* has_updates was reported false
C30_Witness ==
  /\ cmd.kind = "notion" /\ pc = "finished"
  /\ cmd.n = 2
  /\ tally.skippedCount = 1 /\ tally.failCount = 1
  /\ Len(tally.errors) = 1
  /\ tally.hasUpdates = "false"

====
